---- MODULE Spec2Model ----
(***************************************************************************)
(* A model of the retrieval-augmented answer pipeline of the C++ proposals *)
(* explorer: the /api/ask route (src/app/api/ask/route.ts) and askQuestion *)
(* with its steps (src/lib/rag.ts).                                        *)
(*                                                                         *)
(* Numbers.  Similarities are cosine similarities in [0,1]; the model      *)
(* keeps them in hundredths (0..100).  Lexical ranks are ts_rank values;   *)
(* the model keeps them in halves (RankOne = 2 is the rank 1.0), so that   *)
(* ranks below and above the divisor floor 1 both occur.  Hybrid scores    *)
(* are exact rationals kept as integers in units of 1/Unit, Unit being a   *)
(* multiple of 1000 and of every possible divisor: the model computes with *)
(* exact arithmetic where the code computes with IEEE doubles.             *)
(***************************************************************************)
EXTENDS Integers, Sequences, FiniteSets, TLC

VARIABLES
    store,           \* contents of the emails table (a configuration)
    pc,              \* position of the request / of the function under check
    vectorResults,   \* result of vectorSearch
    keywordResults,  \* result of keywordSearch
    merged,          \* result of mergeAndRerank
    ix,              \* expandThreads: index of the merged message in turn
    allEmails,       \* expandThreads: the map allEmails, in insertion order
    fetched,         \* expandThreads: the thread roots whose fetch returned data
    request,         \* the POST request: its body
    env,             \* process.env.LLM_PROVIDER
    rateLimitResult, \* what checkAskRateLimit returned
    embedState,      \* generateEmbedding: idle, pending, ok or error
    vecState,        \* the match_emails call of vectorSearch: likewise
    kwState,         \* the search_emails_fts call of keywordSearch: likewise
    llmState,        \* the language-model call: likewise
    contextEmails,   \* assembleContext's contextEmails
    isComplex,       \* askQuestion's isComplex
    response,        \* the response of the route
    calls,           \* how often each collaborator and step was invoked
    budget,          \* failures of thread fetches still to be injected
    now,             \* the time, in ticks of half a minute
    limiter,         \* the sliding-window counters Redis holds for each IP
    admitted,        \* for each IP, the times at which a request was let in
    outages,         \* how often the limiter's call has thrown
    emails,          \* threads/[id] route: the emails of the thread, as fetched
    tree,            \* threads/[id] route: what buildThreadTree returned
    threadsTable,    \* threads route: the rows of the threads table
    redis,           \* threads route: the value Redis holds for each cache key
    listRequests,    \* threads route: the GET requests being handled
    queryLog,        \* threads route: the unfiltered queries that succeeded
    question,        \* AskInterface: the state question
    loading,         \* AskInterface: the state loading
    result,          \* AskInterface: the state result
    error,           \* AskInterface: the state error
    pending,         \* AskInterface: the fetches of handleAsk still in flight
    submissions      \* AskInterface: the questions submitted, in order

dataVars == <<vectorResults, keywordResults, merged, ix, allEmails, fetched>>

reqVars ==
    <<request, env, rateLimitResult, embedState, vecState, kwState, llmState,
      contextEmails, isComplex, response>>

rateVars == <<now, limiter, admitted, outages>>

treeVars == <<emails, tree>>

cacheVars == <<threadsTable, redis, listRequests, queryLog>>

askVars == <<question, loading, result, error, pending, submissions>>

sideVars == <<treeVars, cacheVars, askVars>>

coreVars == <<store, pc, dataVars, reqVars, calls, budget, rateVars>>

vars == <<coreVars, sideVars>>

----------------------------------------------------------------------------
(* Values *)

NULL == 0            \* null / undefined identifier (identifiers are >= 1)
Undef == -1          \* an absent optional number (similarity?, rank?)

Coalesce(x, d) == IF x = Undef THEN d ELSE x        \* x ?? d

MaxOf(S) == CHOOSE x \in S : \A y \in S : y <= x

RECURSIVE Gcd(_, _)
Gcd(a, b) == IF b = 0 THEN a ELSE Gcd(b, a % b)

Lcm(a, b) == (a * b) \div Gcd(a, b)

RECURSIVE LcmUpTo(_)
LcmUpTo(n) == IF n <= 1 THEN 1 ELSE Lcm(n, LcmUpTo(n - 1))

\* Bounds of the model
MaxRank == 3         \* largest lexical rank, in halves (3 = rank 1.5)
MaxLen == 2          \* longest input list of the exhaustive merge inputs
MaxWide == 8         \* longest input list of the wide merge inputs
MaxMerged == 2       \* longest merged list expandThreads is checked on alone
MaxFailures == 1     \* failed thread fetches injected into one request
Stride == 100         \* identifiers of thread t are t * Stride + 1, + 2, ...
MaxNow == 3          \* the last tick of the clock
MaxRequests == 11    \* requests that reach the route in a row
MaxEmails == 3       \* longest list of emails given to buildThreadTree
MaxDate == 2         \* latest date of an email given to buildThreadTree
MaxListRequests == 2 \* requests sent to the threads route
MaxSubmissions == 3  \* questions submitted in AskInterface

\* Units
SimOne == 100        \* similarity 1.0
RankOne == 2         \* rank 1.0
Unit == 1000 * Lcm(LcmUpTo(MaxRank), RankOne)    \* hybrid score 1.0

\* Program constants of rag.ts
TopK == 10                     \* mergeAndRerank(..., topK = 10)
VectorWeightTenths == 6        \* vectorWeight = 0.6
KeywordWeightTenths == 4       \* keywordWeight = 0.4
VectorThreshold == 25          \* vectorSearch: match_threshold: 0.25
SearchLimit == 15              \* vectorSearch / keywordSearch: limit = 15
MAX_PER_THREAD == 30
FetchExtra == 5                \* .limit(MAX_PER_THREAD + 5)
MAX_RELEVANT_WITHIN_THREAD == 10
ThreadThreshold == 10          \* expandThreads: match_threshold: 0.1
MAX_EMAILS_IN_CONTEXT == 20
MaxSources == 5                \* extractSources: .slice(0, 5)
ComplexThreads == 3            \* isComplex = uniqueThreads.size >= 3
MinQuestion == 3               \* z.string().min(3)
MaxQuestion == 1000            \* z.string().max(1000)
RateLimit == 10                \* Ratelimit.slidingWindow(10, "1 m")

\* x * w for a weight given in tenths; exact because 10 divides every operand
Times(x, tenths) == (x * tenths) \div 10

\* a similarity (hundredths) and a quotient a/b as scores in units of 1/Unit
SimScore(s) == s * (Unit \div SimOne)
Quot(a, b) == (a * Unit) \div b

----------------------------------------------------------------------------
(* Rows: an EmailWithSimilarity / RetrievedEmail, reduced to the fields the *)
(* pipeline reads.                                                          *)

Row(id, root, parent, sim, rank) ==
    [message_id |-> id, thread_root_id |-> root, in_reply_to |-> parent,
     date |-> 0, author_name |-> NULL,
     similarity |-> sim, rank |-> rank, hybrid_score |-> Undef]

----------------------------------------------------------------------------
(* The emails table (supabase/schema.sql 12-31) as the pipeline reads it.   *)
(* A store is a configuration: the sizes of its threads, the number of      *)
(* emails outside any thread, and how its emails compare with the query     *)
(* (the order of their embeddings' similarity, and the lexical hits).       *)
(* Requests carry no filters: filter_date_from, filter_date_to and          *)
(* filter_author are null in every call.                                    *)

IdOf(t, j) == t * Stride + j
ThreadOf(m) == m \div Stride
PosOf(m) == m % Stride

Threads(st) == 1..Len(st.sizes)
ThreadIds(st, t) == {IdOf(t, j) : j \in 1..st.sizes[t]}
OrphanIds(st) == {IdOf(0, k) : k \in 1..st.orphans}
EmailIds(st) == OrphanIds(st) \cup UNION {ThreadIds(st, t) : t \in Threads(st)}

\* thread_root_id: the root's message_id, null outside a thread
RootOf(m) == IF ThreadOf(m) = 0 THEN NULL ELSE IdOf(ThreadOf(m), 1)

\* in_reply_to: the threads are binary trees in order of arrival
ParentOf(m) ==
    IF ThreadOf(m) = 0 \/ PosOf(m) = 1 THEN NULL
    ELSE IdOf(ThreadOf(m), PosOf(m) \div 2)

\* date: later positions of a thread are later, and no two emails share one
DateOf(m) == PosOf(m) * 10 + ThreadOf(m)

\* author_name: two authors, and every third email without a name
AuthorOf(m) == IF PosOf(m) % 3 = 0 THEN NULL ELSE 1 + (PosOf(m) % 2)

\* a row of the emails table
StoreEmail(m) ==
    [Row(m, RootOf(m), ParentOf(m), Undef, Undef)
        EXCEPT !.date = DateOf(m), !.author_name = AuthorOf(m)]

RECURSIVE Concat(_)
Concat(ss) == IF ss = <<>> THEN <<>> ELSE Head(ss) \o Concat(Tail(ss))

Reverse(s) == [i \in 1..Len(s) |-> s[Len(s) + 1 - i]]

ThreadAsc(st, t) == [j \in 1..st.sizes[t] |-> IdOf(t, j)]
OrphanSeq(st) == [k \in 1..st.orphans |-> IdOf(0, k)]

\* the emails in the order of e.embedding <=> query_embedding, nearest first
SimOrder(st) ==
    IF st.simOrder = "early"
    THEN Concat([t \in Threads(st) |-> ThreadAsc(st, t)]) \o OrphanSeq(st)
    ELSE Concat([t \in Threads(st) |-> Reverse(ThreadAsc(st, t))])
             \o OrphanSeq(st)

\* 1 - (e.embedding <=> query_embedding) of the k-th nearest, in hundredths
SimAt(st, k) == IF st.simTop > k THEN st.simTop - k ELSE 0

\* match_emails (schema.sql 101-145): the rows with similarity above the
\* threshold, nearest first, at most match_count; in_reply_to is no column of
\* the result
MatchEmails(st, match_threshold, match_count) ==
    LET order == SimOrder(st)
        above == Cardinality({k \in DOMAIN order : SimAt(st, k) > match_threshold})
        n == IF above < match_count THEN above ELSE match_count
    IN [k \in 1..n |->
           [StoreEmail(order[k]) EXCEPT !.in_reply_to = NULL,
                                        !.similarity = SimAt(st, k)]]

\* the emails the lexical query matches, best first
KwCandidates(st) ==
    IF st.kw = "none" THEN <<>>
    ELSE IF st.kw = "roots"    \* the thread roots and the emails outside threads
    THEN [t \in Threads(st) |-> IdOf(t, 1)] \o OrphanSeq(st)
    ELSE Reverse(ThreadAsc(st, 1))

\* search_emails_fts (schema.sql 147-193): the matching rows by descending
\* ts_rank, at most match_count; the hits have pairwise distinct ranks
SearchEmailsFts(st, match_count) ==
    LET hits == KwCandidates(st)
        h == IF Len(hits) < MaxRank THEN Len(hits) ELSE MaxRank
        n == IF h < match_count THEN h ELSE match_count
    IN [k \in 1..n |->
           [StoreEmail(hits[k]) EXCEPT !.in_reply_to = NULL,
                                       !.rank = MaxRank + 1 - k]]

\* vectorSearch (rag.ts 83-92) and keywordSearch (rag.ts 121-130): the rows
\* with in_reply_to: null
SearchRows(data) == [i \in DOMAIN data |-> [data[i] EXCEPT !.in_reply_to = NULL]]

----------------------------------------------------------------------------
(* Step 3: mergeAndRerank (rag.ts 137-174).  A JS Map keeps insertion order: *)
(* it is a sequence of entries with pairwise distinct keys.                  *)

MapHas(m, key) == \E i \in DOMAIN m : m[i].message_id = key

MapIndex(m, key) == CHOOSE i \in DOMAIN m : m[i].message_id = key

\* a mutation of MapSet: the entry is appended whether or not the key is there
MapSetAppend(m, key, val) == Append(m, val)

\* Map.set: a present key keeps its place and takes the new value
MapSet(m, key, val) ==
    IF MapHas(m, key) THEN [m EXCEPT ![MapIndex(m, key)] = val]
    ELSE Append(m, val)

\* Math.max(...keywordResults.map((r) => r.rank ?? 0), 1)
MaxRankOf(ks) ==
    MaxOf({Coalesce(ks[i].rank, 0) : i \in DOMAIN ks} \cup {RankOne})

\* for (const email of vectorResults) scores.set(id, {...email, hybrid_score})
RECURSIVE SeedVector(_, _)
SeedVector(vs, scores) ==
    IF vs = <<>> THEN scores
    ELSE LET email == Head(vs)
             score == Times(SimScore(Coalesce(email.similarity, 0)),
                            VectorWeightTenths)
         IN SeedVector(Tail(vs),
                MapSet(scores, email.message_id,
                       [email EXCEPT !.hybrid_score = score]))

\* a mutation of AddKeyword: an entry seeded by the vector list is overwritten
RECURSIVE AddKeywordOverwrite(_, _, _)
AddKeywordOverwrite(ks, maxRank, scores) ==
    IF ks = <<>> THEN scores
    ELSE LET email == Head(ks)
             normalizedRank ==
                 Times(Quot(Coalesce(email.rank, 0), maxRank),
                       KeywordWeightTenths)
         IN AddKeywordOverwrite(Tail(ks), maxRank,
                MapSet(scores, email.message_id,
                       [email EXCEPT !.hybrid_score = normalizedRank]))

\* for (const email of keywordResults): add to the entry of a message the
\* vector list seeded, or create an entry
RECURSIVE AddKeyword(_, _, _)
AddKeyword(ks, maxRank, scores) ==
    IF ks = <<>> THEN scores
    ELSE LET email == Head(ks)
             normalizedRank ==
                 Times(Quot(Coalesce(email.rank, 0), maxRank),
                       KeywordWeightTenths)
             i == MapIndex(scores, email.message_id)
         IN AddKeyword(Tail(ks), maxRank,
                IF MapHas(scores, email.message_id)
                THEN [scores EXCEPT ![i].hybrid_score = @ + normalizedRank]
                ELSE Append(scores,
                            [email EXCEPT !.hybrid_score = normalizedRank]))

\* a mutation of ScoreBefore: the comparator a.hybrid_score - b.hybrid_score
ScoreBeforeAscending(a, b) == a.hybrid_score < b.hybrid_score

\* the comparator (a, b) => b.hybrid_score - a.hybrid_score is negative, that
\* is, a is placed before b
ScoreBefore(a, b) == b.hybrid_score < a.hybrid_score

\* a mutation of SortByScore: the entries stay in the order of insertion
SortByScoreNone(s) == s

\* a mutation of SortByScore: entries of equal score come out in reverse
SortByScoreTiesReversed(s) ==
    LET place == [i \in DOMAIN s |->
                    1 + Cardinality({j \in DOMAIN s :
                            \/ ScoreBefore(s[j], s[i])
                            \/ (~ScoreBefore(s[i], s[j]) /\ j > i)})]
    IN [p \in DOMAIN s |-> s[CHOOSE i \in DOMAIN s : place[i] = p]]

\* .sort((a, b) => b.hybrid_score - a.hybrid_score); Array.prototype.sort is
\* stable: an element comes after the elements placed before it and after the
\* earlier elements it compares equal to
SortByScore(s) ==
    LET place == [i \in DOMAIN s |->
                    1 + Cardinality({j \in DOMAIN s :
                            \/ ScoreBefore(s[j], s[i])
                            \/ (~ScoreBefore(s[i], s[j]) /\ j < i)})]
    IN [p \in DOMAIN s |-> s[CHOOSE i \in DOMAIN s : place[i] = p]]

\* .slice(0, n)
Slice(s, n) == SubSeq(s, 1, IF Len(s) < n THEN Len(s) ELSE n)

MergeAndRerank(vs, ks) ==
    LET maxRank == MaxRankOf(ks)
        scores == AddKeyword(ks, maxRank, SeedVector(vs, <<>>))
    IN Slice(SortByScore(scores), TopK)

----------------------------------------------------------------------------
(* Step 4: expandThreads (rag.ts 180-252), one iteration of its loop per    *)
(* step.  The thread fetch and the in-thread match_emails call may fail.    *)

\* supabase.from("emails").select("*").eq("thread_root_id", rootId)
\*     .order("date", { ascending: true }).limit(MAX_PER_THREAD + 5)
FetchThread(st, rootId) ==
    LET t == ThreadOf(rootId)
        size == IF t \in Threads(st) THEN st.sizes[t] ELSE 0
        n == IF size < MAX_PER_THREAD + FetchExtra THEN size
             ELSE MAX_PER_THREAD + FetchExtra
    IN [j \in 1..n |-> StoreEmail(IdOf(t, j))]

\* for (const e of es) allEmails.set(e.message_id, e): by Map.set (MapSet)
\* the keys already present keep their place and take the last value given
\* for them, and the new keys follow in the order of their first occurrence
SetAll(all, es) ==
    LET LastWith(k) ==
            es[CHOOSE j \in DOMAIN es :
                  /\ es[j].message_id = k
                  /\ \A l \in DOMAIN es : l > j => es[l].message_id # k]
        kept == [i \in DOMAIN all |->
                    IF \E j \in DOMAIN es : es[j].message_id = all[i].message_id
                    THEN LastWith(all[i].message_id) ELSE all[i]]
        firsts == SelectSeq([j \in DOMAIN es |-> j],
                      LAMBDA j : /\ ~MapHas(all, es[j].message_id)
                                 /\ \A l \in 1..(j - 1) :
                                        es[l].message_id # es[j].message_id)
    IN kept \o [p \in DOMAIN firsts |-> LastWith(es[firsts[p]].message_id)]

\* typedThreadEmails.find((te) => te.message_id === id) as a list of 0 or 1
Find(es, id) ==
    IF \E i \in DOMAIN es : es[i].message_id = id
    THEN <<es[CHOOSE i \in DOMAIN es :
                 /\ es[i].message_id = id
                 /\ \A j \in 1..(i - 1) : es[j].message_id # id]>>
    ELSE <<>>

\* a mutation of LargeThread: only the first merged email has the root of its
\* thread added, and nothing else is
LargeThreadOnlyFirst(all, email, threadEmails, relevantInThread) ==
    IF Len(all) = 1
    THEN SetAll(all, Find(threadEmails, email.thread_root_id))
    ELSE all

\* a mutation of LargeThread: the whole fetched page is included
LargeThreadIncludeAll(all, email, threadEmails, relevantInThread) ==
    SetAll(all, threadEmails)

\* the else branch (rag.ts 214-248): the root, the relevant rows that are in
\* the fetched page, and the parent of the matched email
LargeThread(all, email, threadEmails, relevantInThread) ==
    LET threadIds == {threadEmails[i].message_id : i \in DOMAIN threadEmails}
        relevant == SelectSeq(relevantInThread,
                              LAMBDA r : r.message_id \in threadIds)
        withRoot == SetAll(all, Find(threadEmails, email.thread_root_id))
        withRelevant ==
            SetAll(withRoot,
                   Concat([i \in DOMAIN relevant |->
                              Find(threadEmails, relevant[i].message_id)]))
    IN SetAll(withRelevant, Find(threadEmails, email.in_reply_to))

\* a mutation of SmallThread: the last fetched email is left out
SmallThreadDropLast(all, threadEmails) ==
    SetAll(all, SubSeq(threadEmails, 1, Len(threadEmails) - 1))

\* the then branch (rag.ts 209-213): include all
SmallThread(all, threadEmails) == SetAll(all, threadEmails)

\* a mutation of ExpandOne: the error of the thread fetch is not looked at
ExpandOneIgnoreError(st, all, email, fetch, rel) ==
    LET withSelf == MapSet(all, email.message_id, email)
        threadEmails == FetchThread(st, email.thread_root_id)
    IN IF email.thread_root_id = NULL THEN withSelf
       ELSE SetAll(withSelf, threadEmails)

\* the body of the loop for one merged email; fetch and rel say whether the
\* thread fetch and the match_emails call succeed
ExpandOne(st, all, email, fetch, rel) ==
    LET withSelf == MapSet(all, email.message_id, email)
        rootId == email.thread_root_id
        threadEmails == FetchThread(st, rootId)
        relevantInThread ==
            IF rel = "ok"
            THEN MatchEmails(st, ThreadThreshold, MAX_RELEVANT_WITHIN_THREAD)
            ELSE <<>>
    IN IF rootId = NULL THEN withSelf
       ELSE IF fetch # "ok" THEN withSelf
       ELSE IF Len(threadEmails) <= MAX_PER_THREAD
       THEN SmallThread(withSelf, threadEmails)
       ELSE LargeThread(withSelf, email, threadEmails, relevantInThread)

Outcomes == {"ok", "error"}

\* expandThreads as a function of the store and the merged emails, when
\* every call succeeds: the loop of rag.ts 189-249 from the map all
RECURSIVE ExpandAll(_, _, _)
ExpandAll(st, all, rest) ==
    IF rest = <<>> THEN all
    ELSE ExpandAll(st, ExpandOne(st, all, Head(rest), "ok", "ok"),
                   Tail(rest))

\* one more invocation of a collaborator or step
Bump(cs, name) == [cs EXCEPT ![name] = @ + 1]

ExpandStep ==
    /\ pc = "expand"
    /\ ix <= Len(merged)
    /\ \E fetch \in Outcomes, rel \in Outcomes :
          LET email == merged[ix]
              fetches == email.thread_root_id # NULL
              large == /\ fetches
                       /\ fetch = "ok"
                       /\ Len(FetchThread(store, email.thread_root_id))
                              > MAX_PER_THREAD
              failures == (IF fetches /\ fetch = "error" THEN 1 ELSE 0)
                          + (IF large /\ rel = "error" THEN 1 ELSE 0)
          IN /\ failures <= budget
             /\ budget' = budget - failures
             /\ allEmails' = ExpandOne(store, allEmails, email, fetch, rel)
             /\ fetched' = IF fetches /\ fetch = "ok"
                           THEN fetched \cup {email.thread_root_id}
                           ELSE fetched
             /\ calls' = [calls EXCEPT
                             !["fetch"] = @ + (IF fetches THEN 1 ELSE 0),
                             !["match"] = @ + (IF large THEN 1 ELSE 0)]
    /\ ix' = ix + 1
    /\ UNCHANGED <<rateVars, sideVars>>
    /\ UNCHANGED <<store, pc, vectorResults, keywordResults, merged, reqVars>>

----------------------------------------------------------------------------
(* Step 5: assembleContext (rag.ts 271-286) *)

\* a mutation of DateBefore: the later email first
DateAfter(a, b) == b.date < a.date

\* (a, b) => new Date(a.date).getTime() - new Date(b.date).getTime()
DateBefore(a, b) == a.date < b.date

\* [...allContextEmails].sort(by date); Array.prototype.sort is
\* stable: an element comes after the elements placed before it and after the
\* earlier elements it compares equal to
SortByDate(s) ==
    LET place == [i \in DOMAIN s |->
                    1 + Cardinality({j \in DOMAIN s :
                            \/ DateBefore(s[j], s[i])
                            \/ (~DateBefore(s[i], s[j]) /\ j < i)})]
    IN [p \in DOMAIN s |-> s[CHOOSE i \in DOMAIN s : place[i] = p]]

AssembleContext(allContextEmails) ==
    Slice(SortByDate(allContextEmails), MAX_EMAILS_IN_CONTEXT)

----------------------------------------------------------------------------
(* Step 6: callLLM, callGroq, callClaude (rag.ts 305-377).  What a provider  *)
(* sends back: it throws, or its response carries no text (null content, no  *)
(* text block), or it carries a text, possibly the empty one, that mentions  *)
(* some authors by name.                                                     *)

Placeholder == "No answer generated."

LLMOutcomes ==
    {[kind |-> "throw", text |-> "", mentions |-> {}],
     [kind |-> "none", text |-> "", mentions |-> {}],
     [kind |-> "text", text |-> "", mentions |-> {}],
     [kind |-> "text", text |-> "answer", mentions |-> {}],
     [kind |-> "text", text |-> "answer", mentions |-> {1}],
     [kind |-> "text", text |-> "answer", mentions |-> {1, 2}]}

\* response.choices[0]?.message?.content ?? "No answer generated."
\* textBlock?.text ?? "No answer generated."
ProviderText(out) ==
    IF out.kind = "none" THEN [text |-> Placeholder, mentions |-> {}]
    ELSE [text |-> out.text, mentions |-> out.mentions]

\* a mutation of ProviderFor: Groq whatever the configuration says
ProviderForAlwaysGroq(llmProvider) == "groq"

\* callLLM (rag.ts 368-377): Claude if LLM_PROVIDER=anthropic, Groq otherwise
ProviderFor(llmProvider) ==
    IF llmProvider = "anthropic" THEN "claude" ELSE "groq"

\* a mutation of Rejects: a failure of the provider is swallowed
RejectsNever(out) == FALSE

\* the await of callLLM rejects: nothing in askQuestion catches it
Rejects(out) == out.kind = "throw"

----------------------------------------------------------------------------
(* Step 7: extractSources (rag.ts 383-428) *)

\* matchedScores.get(id) ?? 0, matchedScores = new Map(matchedEmails.map(...))
MatchedScore(matchedEmails, id) ==
    IF \E i \in DOMAIN matchedEmails : matchedEmails[i].message_id = id
    THEN matchedEmails[CHOOSE i \in DOMAIN matchedEmails :
             /\ matchedEmails[i].message_id = id
             /\ \A j \in (i + 1)..Len(matchedEmails) :
                   matchedEmails[j].message_id # id].hybrid_score
    ELSE 0

\* a mutation of SourceBefore: the comparator a.score - b.score
SourceBeforeAscending(a, b) == a.score < b.score

\* (a, b) => b.score - a.score is negative: a is placed before b
SourceBefore(a, b) == b.score < a.score

\* a mutation of MinOf2: the score is not clamped
MinOf2Left(a, b) == a

\* Math.min(score, 1)
MinOf2(a, b) == IF a < b THEN a ELSE b

\* .sort((a, b) => b.score - a.score); Array.prototype.sort is
\* stable: an element comes after the elements placed before it and after the
\* earlier elements it compares equal to
\* a mutation of SortSources: every place holds the first element
SortSourcesRepeatFirst(s) == [p \in DOMAIN s |-> s[1]]

SortSources(s) ==
    LET place == [i \in DOMAIN s |->
                    1 + Cardinality({j \in DOMAIN s :
                            \/ SourceBefore(s[j], s[i])
                            \/ (~SourceBefore(s[i], s[j]) /\ j < i)})]
    IN [p \in DOMAIN s |-> s[CHOOSE i \in DOMAIN s : place[i] = p]]

ExtractSources(answer, context, matchedEmails) ==
    LET mentionedAuthors ==
            {context[i].author_name : i \in
                {i \in DOMAIN context :
                    /\ context[i].author_name # NULL
                    /\ context[i].author_name \in answer.mentions}}
        scored ==
            [i \in DOMAIN context |->
                [email |-> context[i],
                 score |-> MatchedScore(matchedEmails, context[i].message_id)
                           + (IF /\ context[i].author_name # NULL
                                 /\ context[i].author_name \in mentionedAuthors
                              THEN Unit \div 5 ELSE 0)]]
        top == Slice(SortSources(scored), MaxSources)
    IN [i \in DOMAIN top |->
           [message_id |-> top[i].email.message_id,
            author_name |-> top[i].email.author_name,
            date |-> top[i].email.date,
            relevance_score |-> MinOf2(top[i].score, Unit)]]

----------------------------------------------------------------------------
(* The limiter of /api/ask (ratelimit.ts 26-36): Ratelimit.slidingWindow(10, *)
(* "1 m") of @upstash/ratelimit, keyed by the client IP.  Redis holds, for   *)
(* each key, the count of the window in course and of the one before; a      *)
(* request is let in while the count in course plus the part of the previous *)
(* count that the sliding window still covers is below the limit.  Time is   *)
(* counted in ticks of half a minute.                                        *)

WindowTicks == 2         \* ticks in the window "1 m"
HourTicks == 60 * WindowTicks

\* getClientIP (ratelimit.ts 38-44): the first x-forwarded-for entry
Ips == {"a", "b"}

NoCounters == [window |-> 0, current |-> 0, previous |-> 0]

\* the counters as they stand in window w: the keys of older windows expired
Roll(l, w) ==
    IF w = l.window THEN l
    ELSE IF w = l.window + 1
    THEN [window |-> w, current |-> 0, previous |-> l.current]
    ELSE [window |-> w, current |-> 0, previous |-> 0]

\* floor((1 - percentageInCurrent) * requestsInPreviousWindow)
PreviousPart(l, t) ==
    ((WindowTicks - (t % WindowTicks)) * l.previous) \div WindowTicks

\* ratelimiter.limit(ip) at time t on the counters l of that IP
SlidingWindow(l, t) ==
    LET r == Roll(l, t \div WindowTicks)
        used == PreviousPart(r, t) + r.current
    IN IF used >= RateLimit
       THEN [success |-> FALSE, remaining |-> 0, counters |-> r]
       ELSE [success |-> TRUE, remaining |-> RateLimit - (used + 1),
             counters |-> [r EXCEPT !.current = @ + 1]]

\* a mutation of CheckAskRateLimit: an unavailable limiter rejects
CheckAskRateLimitFailClosed(out, l, t) ==
    IF out = "error"
    THEN [success |-> FALSE, limit |-> RateLimit, remaining |-> 0]
    ELSE [success |-> SlidingWindow(l, t).success, limit |-> RateLimit,
          remaining |-> SlidingWindow(l, t).remaining]

\* checkAskRateLimit (ratelimit.ts 57-71): the limiter's verdict, or, when
\* its call throws (Redis unavailable or not configured), success
CheckAskRateLimit(out, l, t) ==
    IF out = "error"
    THEN [success |-> TRUE, limit |-> RateLimit, remaining |-> RateLimit]
    ELSE [success |-> SlidingWindow(l, t).success, limit |-> RateLimit,
          remaining |-> SlidingWindow(l, t).remaining]

\* the value of rateLimitResult before checkAskRateLimit has returned
NoRateLimitResult ==
    [success |-> TRUE, limit |-> RateLimit, remaining |-> RateLimit - 1]

----------------------------------------------------------------------------
(* The route POST /api/ask (route.ts 20-72) and askQuestion (rag.ts         *)
(* 434-486), one action per stretch of code between two awaits.             *)

NoAnswer == [text |-> "", mentions |-> {}]

NoResponse ==
    [status |-> 0, body |-> "", answer |-> NoAnswer, sources |-> <<>>,
     thread_ids |-> <<>>, headers |-> {}]

\* a mutation of ErrorResponse: the headers are left out
ErrorResponseNoHeaders(status, body, headers) ==
    [status |-> status, body |-> body, answer |-> NoAnswer, sources |-> <<>>,
     thread_ids |-> <<>>, headers |-> {}]

\* NextResponse.json({ error: ... }, { status, headers })
ErrorResponse(status, body, headers) ==
    [status |-> status, body |-> body, answer |-> NoAnswer, sources |-> <<>>,
     thread_ids |-> <<>>, headers |-> headers]

\* NextResponse.json(result, { headers: ... })
ResultResponse(answer, sources, threadIds) ==
    [status |-> 200, body |-> "result", answer |-> answer, sources |-> sources,
     thread_ids |-> threadIds,
     headers |-> {"X-RateLimit-Limit", "X-RateLimit-Remaining"}]

NoResultsText ==
    "No relevant discussions found for your question. The archive may not contain information on this specific topic."

\* the catch of the route (route.ts 65-71)
CaughtResponse ==
    ErrorResponse(500, "Failed to generate answer. Please try again.", {})


\* a mutation of ValidQuestion: no upper bound
ValidQuestionNoMax(len) == len >= MinQuestion

\* bodySchema: question: z.string().min(3).max(1000)
ValidQuestion(len) == len >= MinQuestion /\ len <= MaxQuestion

RateLimitStep ==
    /\ pc = "start"
    /\ \E out \in Outcomes :
          LET ip == request.ip
              checked == CheckAskRateLimit(out, limiter[ip], now)
          IN /\ out = "error" => outages < MaxFailures
             /\ outages' = IF out = "error" THEN outages + 1 ELSE outages
             /\ limiter' =
                    IF out = "error" THEN limiter
                    ELSE [limiter EXCEPT
                             ![ip] = SlidingWindow(limiter[ip], now).counters]
             /\ admitted' =
                    IF checked.success
                    THEN [admitted EXCEPT ![ip] = Append(@, now)]
                    ELSE admitted
             /\ rateLimitResult' = checked
             /\ IF ~checked.success
                THEN /\ response' =
                            ErrorResponse(429,
                                "Rate limit exceeded. Please wait a minute before asking again.",
                                {"X-RateLimit-Limit", "X-RateLimit-Remaining",
                                 "X-RateLimit-Reset"})
                     /\ pc' = "done"
                ELSE /\ response' = response
                     /\ pc' = "body"
    /\ calls' = Bump(calls, "ratelimit")
    /\ UNCHANGED <<store, dataVars, request, env, embedState, vecState, kwState,
                   llmState, contextEmails, isComplex, budget, now, sideVars>>

\* req.json(), bodySchema.safeParse, and askQuestion up to its first await
ParseAndValidate ==
    /\ pc = "body"
    /\ IF ~request.json
       THEN /\ response' = ErrorResponse(400, "Invalid JSON body", {})
            /\ pc' = "done"
            /\ UNCHANGED <<embedState, calls>>
       ELSE IF ~ValidQuestion(request.question_len)
       THEN /\ response' = ErrorResponse(400, "Invalid request body", {})
            /\ pc' = "done"
            /\ UNCHANGED <<embedState, calls>>
       ELSE /\ embedState' = "pending"
            /\ calls' = Bump(calls, "embed")
            /\ pc' = "embed"
            /\ UNCHANGED response
    /\ UNCHANGED <<rateVars, sideVars>>
    /\ UNCHANGED <<store, dataVars, request, env, rateLimitResult, vecState,
                   kwState, llmState, contextEmails, isComplex, budget>>

\* await generateEmbedding(question) settles; on success both searches are
\* called, each up to its rpc, before Promise.all is awaited
EmbedReturns ==
    /\ pc = "embed"
    /\ \E out \in Outcomes :
          IF out = "ok"
          THEN /\ embedState' = "ok"
               /\ vecState' = "pending"
               /\ kwState' = "pending"
               /\ calls' = [calls EXCEPT !["vector"] = @ + 1,
                                         !["keyword"] = @ + 1]
               /\ pc' = "search"
               /\ UNCHANGED response
          ELSE /\ embedState' = "error"
               /\ response' = CaughtResponse
               /\ pc' = "done"
               /\ UNCHANGED <<vecState, kwState, calls>>
    /\ UNCHANGED <<rateVars, sideVars>>
    /\ UNCHANGED <<store, dataVars, request, env, rateLimitResult, llmState,
                   contextEmails, isComplex, budget>>

\* the rpc of vectorSearch settles (rag.ts 69-92)
VectorSearchReturns ==
    /\ pc = "search"
    /\ vecState = "pending"
    /\ \E out \in Outcomes :
          /\ vecState' = out
          /\ vectorResults' =
                 IF out = "ok"
                 THEN SearchRows(MatchEmails(store, VectorThreshold, SearchLimit))
                 ELSE <<>>
    /\ UNCHANGED <<rateVars, sideVars>>
    /\ UNCHANGED <<store, pc, keywordResults, merged, ix, allEmails, fetched,
                   request, env, rateLimitResult, embedState, kwState, llmState,
                   contextEmails, isComplex, response, calls, budget>>

\* the rpc of keywordSearch settles (rag.ts 107-130)
KeywordSearchReturns ==
    /\ pc = "search"
    /\ kwState = "pending"
    /\ \E out \in Outcomes :
          /\ kwState' = out
          /\ keywordResults' =
                 IF out = "ok"
                 THEN SearchRows(SearchEmailsFts(store, SearchLimit))
                 ELSE <<>>
    /\ UNCHANGED <<rateVars, sideVars>>
    /\ UNCHANGED <<store, pc, vectorResults, merged, ix, allEmails, fetched,
                   request, env, rateLimitResult, embedState, vecState, llmState,
                   contextEmails, isComplex, response, calls, budget>>

\* a mutation of BothSettled: the first search to settle ends the wait
EitherSettled(v, k) == v # "pending" \/ k # "pending"

\* Promise.all([vectorSearch(...), keywordSearch(...)]) is fulfilled
BothSettled(v, k) == v # "pending" /\ k # "pending"

\* a mutation of NothingFound: no short cut for an empty merge
NothingFoundNever(m) == FALSE

\* merged.length === 0
NothingFound(m) == Len(m) = 0

\* new Set(merged.map((e) => e.thread_root_id)), in insertion order
RECURSIVE Distinct(_)
Distinct(s) ==
    IF s = <<>> THEN <<>>
    ELSE LET d == Distinct(SubSeq(s, 1, Len(s) - 1))
         IN IF \E i \in DOMAIN d : d[i] = s[Len(s)] THEN d
            ELSE Append(d, s[Len(s)])

UniqueThreads(m) == Distinct([i \in DOMAIN m |-> m[i].thread_root_id])

\* the await of Promise.all resumes: merge, and return if nothing was found
MergeStep ==
    /\ pc = "search"
    /\ BothSettled(vecState, kwState)
    /\ LET m == MergeAndRerank(vectorResults, keywordResults)
       IN /\ merged' = m
          /\ IF NothingFound(m)
             THEN /\ response' =
                         ResultResponse([text |-> NoResultsText, mentions |-> {}],
                                        <<>>, <<>>)
                  /\ pc' = "done"
                  /\ ix' = ix
             ELSE /\ response' = response
                  /\ pc' = "expand"
                  /\ ix' = 1
    /\ calls' = Bump(calls, "merge")
    /\ UNCHANGED <<rateVars, sideVars>>
    /\ UNCHANGED <<store, vectorResults, keywordResults, allEmails, fetched,
                   request, env, rateLimitResult, embedState, vecState, kwState,
                   llmState, contextEmails, isComplex, budget>>

\* expandThreads has returned: assemble the context and call the provider
CallLLM ==
    /\ pc = "expand"
    /\ ix > Len(merged)
    /\ contextEmails' = AssembleContext(allEmails)
    /\ isComplex' = (Len(UniqueThreads(merged)) >= ComplexThreads)
    /\ llmState' = "pending"
    /\ calls' = Bump(calls, ProviderFor(env))
    /\ pc' = "llm"
    /\ UNCHANGED <<rateVars, sideVars>>
    /\ UNCHANGED <<store, dataVars, request, env, rateLimitResult, embedState,
                   vecState, kwState, response, budget>>

\* the provider settles: extract the sources and answer, or fail the request
LLMReturns ==
    /\ pc = "llm"
    /\ \E out \in LLMOutcomes :
          IF Rejects(out)
          THEN /\ llmState' = "error"
               /\ response' = CaughtResponse
               /\ calls' = calls
          ELSE LET answer == ProviderText(out)
                   threadIds == SelectSeq(UniqueThreads(merged),
                                          LAMBDA r : r # NULL)
               IN /\ llmState' = IF out.kind = "throw" THEN "error" ELSE "ok"
                  /\ response' =
                         ResultResponse(answer,
                             ExtractSources(answer, contextEmails, merged),
                             threadIds)
                  /\ calls' = Bump(calls, "extract")
    /\ pc' = "done"
    /\ UNCHANGED <<rateVars, sideVars>>
    /\ UNCHANGED <<store, dataVars, request, env, rateLimitResult, embedState,
                   vecState, kwState, contextEmails, isComplex, budget>>

----------------------------------------------------------------------------
(* buildThreadTree (lib/utils.ts, part_008 123-158), called by the thread    *)
(* route and the thread page with the emails of one thread, which the       *)
(* database returns ordered by date.  An email is [message_id, in_reply_to, *)
(* date]; a node is an email with its children.  message_id is unique in    *)
(* the table; in_reply_to is any text or null.                              *)

\* parentId && byId.has(parentId)
HasParent(es, e) ==
    /\ e.in_reply_to # NULL
    /\ \E i \in DOMAIN es : es[i].message_id = e.in_reply_to

\* second pass: the emails pushed to the children of the node id, in order
ChildrenOf(es, id) ==
    SelectSeq(es, LAMBDA e : HasParent(es, e) /\ e.in_reply_to = id)

\* second pass: the emails pushed to roots, in order
RootsOf(es) == SelectSeq(es, LAMBDA e : ~HasParent(es, e))

\* .sort((a, b) => new Date(a.date).getTime() - new Date(b.date).getTime()),
\* a stable sort
SortNodes(s) ==
    LET place == [i \in DOMAIN s |->
                    1 + Cardinality({j \in DOMAIN s :
                            \/ s[j].date < s[i].date
                            \/ (s[j].date = s[i].date /\ j < i)})]
    IN [p \in DOMAIN s |-> s[CHOOSE i \in DOMAIN s : place[i] = p]]

RECURSIVE NodeOf(_, _)
\* the node of an email once sortChildren has visited it: { ...email,
\* children }.  Only nodes below a root are visited, and those form a forest.
NodeOf(es, e) ==
    LET kids == SortNodes(ChildrenOf(es, e.message_id))
    IN [message_id |-> e.message_id, in_reply_to |-> e.in_reply_to,
        date |-> e.date,
        children |-> [k \in DOMAIN kids |-> NodeOf(es, kids[k])]]

BuildThreadTree(es) ==
    LET sorted == SortNodes(RootsOf(es))
    IN [k \in DOMAIN sorted |-> NodeOf(es, sorted[k])]

\* const tree = buildThreadTree(emails ?? [])
BuildTreeCall ==
    /\ pc = "tree"
    /\ tree' = BuildThreadTree(emails)
    /\ pc' = "built"
    /\ UNCHANGED <<store, dataVars, reqVars, calls, budget, rateVars>>
    /\ UNCHANGED <<emails, cacheVars, askVars>>

\* no thread has been fetched
TreeIdle ==
    /\ emails = <<>>
    /\ tree = <<>>

----------------------------------------------------------------------------
(* GET /api/threads (part_014) with cacheGet / cacheSet (ratelimit.ts       *)
(* 73-97).  A row of the threads table is [id, date_end, message_count,     *)
(* participant_count, matches], matches telling whether its subject         *)
(* contains the search text "x"; the values of a column differ from row to  *)
(* row.  A search is "none" (no parameter), "" or "x".  What Redis holds    *)
(* for a key is [hit, threads, total]; the values are JSON data, which      *)
(* Redis returns as it was stored.                                          *)

AllThreads ==
    {[id |-> 1, date_end |-> 1, message_count |-> 5, participant_count |-> 2,
      matches |-> TRUE],
     [id |-> 2, date_end |-> 2, message_count |-> 3, participant_count |-> 1,
      matches |-> FALSE]}

Sorts == {"recent", "active", "popular"}

Pages == {1, 2}

PerPages == {1}

Clients == {1, 2}

\* if (search), if (!search): the empty string is falsy as undefined is
Truthy(search) == search \notin {"none", ""}

\* a mutation of CacheKey: the sort is left out of the key
CacheKeyNoSort(sort, page, per_page) == <<"recent", page, per_page>>

\* `threads:${sort}:${page}:${per_page}`: sort is one of three words and the
\* other two are numbers, so the text determines the three parts
CacheKey(sort, page, per_page) == <<sort, page, per_page>>

CacheKeys == Sorts \X Pages \X PerPages

NoValue == [hit |-> FALSE, threads |-> <<>>, total |-> 0]

\* query.order(column, { ascending: false })
SortColumn(row, sort) ==
    CASE sort = "recent" -> row.date_end
      [] sort = "active" -> row.message_count
      [] sort = "popular" -> row.participant_count

RECURSIVE Descending(_, _)
\* the rows in descending order of the sort column, as identifiers
Descending(rows, sort) ==
    IF rows = {} THEN <<>>
    ELSE LET top == CHOOSE t \in rows :
                       \A u \in rows : SortColumn(u, sort) <= SortColumn(t, sort)
         IN <<top.id>> \o Descending(rows \ {top}, sort)

\* from("threads").select("*", { count: "exact" }) [.ilike("subject", ...)]
\* .order(...).range(offset, offset + per_page - 1), when it succeeds
QueryThreads(table, sort, page, per_page, search) ==
    LET filtered == IF Truthy(search) THEN {t \in table : t.matches} ELSE table
        ordered == Descending(filtered, sort)
        offset == (page - 1) * per_page
        last == IF offset + per_page < Len(ordered) THEN offset + per_page
                ELSE Len(ordered)
    IN [threads |-> SubSeq(ordered, offset + 1, last),
        total |-> Cardinality(filtered)]

NoListResponse ==
    [status |-> 0, threads |-> <<>>, total |-> 0, page |-> 0, per_page |-> 0,
     served |-> "none"]

\* NextResponse.json({ error: ... }, { status })
ListError(status) == [NoListResponse EXCEPT !.status = status]

\* NextResponse.json({ threads, total, page, per_page })
ListResponse(value, page, per_page, served) ==
    [status |-> 200, threads |-> value.threads, total |-> value.total,
     page |-> page, per_page |-> per_page, served |-> served]

NoListRequest ==
    [state |-> "idle", n |-> 0, sort |-> "recent", page |-> 1, per_page |-> 1,
     search |-> "none", data |-> NoValue, response |-> NoListResponse]

\* the query strings sent: page 0 is what querySchema rejects, sort "none"
\* is the absent parameter
ListQueries ==
    [sort : {"none", "recent", "active"}, page : {0} \cup Pages,
     per_page : PerPages, search : {"none", "", "x"}]

\* the requests sent so far
Started == listRequests[1].n + listRequests[2].n

\* GET up to its first await: querySchema.safeParse, the default of sort, and
\* either the call of cacheGet or, with a search, the query
ListGet(r) ==
    /\ listRequests[r].state \in {"idle", "done"}
    /\ Started < MaxListRequests
    /\ \E q \in ListQueries :
          LET sort == IF q.sort = "none" THEN "recent" ELSE q.sort
              base == [NoListRequest EXCEPT !.n = listRequests[r].n + 1]
          IN listRequests' = [listRequests EXCEPT ![r] =
                IF q.page < 1
                THEN [base EXCEPT !.state = "done", !.response = ListError(400)]
                ELSE [base EXCEPT
                         !.state = IF Truthy(q.search) THEN "query"
                                   ELSE "cacheGet",
                         !.sort = sort, !.page = q.page,
                         !.per_page = q.per_page, !.search = q.search]]
    /\ UNCHANGED <<threadsTable, redis, queryLog>>
    /\ UNCHANGED <<coreVars, treeVars, askVars>>

\* cacheGet returns: the value of the key, or null when Redis has none or the
\* call threw; a value is answered at once
CacheGetReturns(r) ==
    /\ listRequests[r].state = "cacheGet"
    /\ \E out \in Outcomes :
          LET req == listRequests[r]
              cached == IF out = "ok"
                        THEN redis[CacheKey(req.sort, req.page, req.per_page)]
                        ELSE NoValue
          IN listRequests' = [listRequests EXCEPT ![r] =
                IF cached.hit
                THEN [req EXCEPT !.state = "done",
                         !.response = ListResponse(cached, req.page,
                                                   req.per_page, "cache")]
                ELSE [req EXCEPT !.state = "query"]]
    /\ UNCHANGED <<threadsTable, redis, queryLog>>
    /\ UNCHANGED <<coreVars, treeVars, askVars>>

\* the query returns: an error is answered 500; data is answered at once
\* when there is a search, and is handed to cacheSet first when there is none
QueryReturns(r) ==
    /\ listRequests[r].state = "query"
    /\ \E out \in Outcomes :
          LET req == listRequests[r]
              data == QueryThreads(threadsTable, req.sort, req.page,
                                   req.per_page, req.search)
              value == [hit |-> TRUE, threads |-> data.threads,
                        total |-> data.total]
          IN IF out = "error"
             THEN /\ listRequests' = [listRequests EXCEPT ![r] =
                         [req EXCEPT !.state = "done",
                                     !.response = ListError(500)]]
                  /\ queryLog' = queryLog
             ELSE /\ listRequests' = [listRequests EXCEPT ![r] =
                         IF Truthy(req.search)
                         THEN [req EXCEPT !.state = "done",
                                  !.response = ListResponse(value, req.page,
                                                   req.per_page, "database")]
                         ELSE [req EXCEPT !.state = "cacheSet",
                                          !.data = value]]
                  /\ queryLog' =
                         IF Truthy(req.search) THEN queryLog
                         ELSE queryLog \cup
                                {[sort |-> req.sort, page |-> req.page,
                                  per_page |-> req.per_page, value |-> value]}
    /\ UNCHANGED <<threadsTable, redis>>
    /\ UNCHANGED <<coreVars, treeVars, askVars>>

\* cacheSet returns, having written the value or having thrown (which it
\* swallows), and the data is answered
CacheSetReturns(r) ==
    /\ listRequests[r].state = "cacheSet"
    /\ \E out \in Outcomes :
          LET req == listRequests[r]
          IN /\ redis' = IF out = "ok"
                         THEN [redis EXCEPT
                                 ![CacheKey(req.sort, req.page, req.per_page)]
                                     = req.data]
                         ELSE redis
             /\ listRequests' = [listRequests EXCEPT ![r] =
                    [req EXCEPT !.state = "done",
                                !.response = ListResponse(req.data, req.page,
                                                 req.per_page, "database")]]
    /\ UNCHANGED <<threadsTable, queryLog>>
    /\ UNCHANGED <<coreVars, treeVars, askVars>>

\* a key reaches its time to live (CACHE_TTL) and Redis drops it
Expire ==
    /\ \E k \in CacheKeys :
          /\ redis[k].hit
          /\ redis' = [redis EXCEPT ![k] = NoValue]
    /\ UNCHANGED <<threadsTable, listRequests, queryLog>>
    /\ UNCHANGED <<coreVars, treeVars, askVars>>

\* the archive gains a thread
ThreadArrives ==
    /\ \E t \in AllThreads \ threadsTable :
          threadsTable' = threadsTable \cup {t}
    /\ UNCHANGED <<redis, listRequests, queryLog>>
    /\ UNCHANGED <<coreVars, treeVars, askVars>>

\* no request has reached the threads route
CacheIdle ==
    /\ threadsTable = {}
    /\ redis = [k \in CacheKeys |-> NoValue]
    /\ listRequests = [r \in Clients |-> NoListRequest]
    /\ queryLog = {}

----------------------------------------------------------------------------
(* AskInterface (part_003).  A question is a number: Blank stands for a     *)
(* text that trim() empties, 1 and 2 for two texts that differ after        *)
(* trim().  The response to the fetch of the k-th submission is named by k, *)
(* so result and error hold NULL or the number of a submission.             *)

Blank == 0

Questions == {Blank, 1, 2}

\* what the fetch of handleAsk comes to: a result, a 429, another status
\* that is not ok, or a throw of fetch or of res.json()
FetchOutcomes == {"ok", "limited", "failed", "threw"}

\* handleAsk(q) up to its await: nothing when q.trim() is empty; else
\* setLoading(true), setError(null), setResult(null) and the fetch
HandleAsk(q) ==
    /\ q # Blank
    /\ Len(submissions) < MaxSubmissions
    /\ loading' = TRUE
    /\ error' = NULL
    /\ result' = NULL
    /\ submissions' = Append(submissions, q)
    /\ pending' = pending \cup {Len(submissions) + 1}

\* textarea onChange: setQuestion(e.target.value)
TypeQuestion ==
    /\ \E q \in Questions \ {question} : question' = q
    /\ UNCHANGED <<loading, result, error, pending, submissions>>
    /\ UNCHANGED <<coreVars, treeVars, cacheVars>>

\* textarea onKeyDown with Enter and the meta or control key: handleAsk(),
\* whatever loading is
PressEnter ==
    /\ HandleAsk(question)
    /\ UNCHANGED question
    /\ UNCHANGED <<coreVars, treeVars, cacheVars>>

\* the Ask button, disabled while loading or when the question is blank
ClickAsk ==
    /\ ~loading
    /\ HandleAsk(question)
    /\ UNCHANGED question
    /\ UNCHANGED <<coreVars, treeVars, cacheVars>>

\* an example question, shown when there is no result and nothing loading:
\* setQuestion(q); handleAsk(q)
ClickExample ==
    /\ result = NULL
    /\ ~loading
    /\ \E q \in Questions \ {Blank} :
          /\ question' = q
          /\ HandleAsk(q)
    /\ UNCHANGED <<coreVars, treeVars, cacheVars>>

\* the rest of handleAsk for one fetch: setResult(data) or setError(...),
\* and setLoading(false) in the finally
ResponseArrives ==
    /\ \E k \in pending :
          /\ \E out \in FetchOutcomes :
                IF out = "ok"
                THEN /\ result' = k
                     /\ error' = error
                ELSE /\ error' = k
                     /\ result' = result
          /\ pending' = pending \ {k}
    /\ loading' = FALSE
    /\ UNCHANGED <<question, submissions>>
    /\ UNCHANGED <<coreVars, treeVars, cacheVars>>

\* "Ask another question", shown with a result: setResult(null),
\* setQuestion("")
AskAnother ==
    /\ result # NULL
    /\ result' = NULL
    /\ question' = Blank
    /\ UNCHANGED <<loading, error, pending, submissions>>
    /\ UNCHANGED <<coreVars, treeVars, cacheVars>>

\* the component as mounted without a q parameter
AskIdle ==
    /\ question = Blank
    /\ loading = FALSE
    /\ result = NULL
    /\ error = NULL
    /\ pending = {}
    /\ submissions = <<>>

Steps ==
    {"ratelimit", "embed", "vector", "keyword", "merge", "fetch", "match",
     "groq", "claude", "extract"}

NoCalls == [c \in Steps |-> 0]

\* a request that has not begun
Idle ==
    /\ request = [json |-> FALSE, question_len |-> 0, ip |-> "a"]
    /\ env = "unset"
    /\ rateLimitResult = NoRateLimitResult
    /\ now = 0
    /\ limiter = [ip \in Ips |-> NoCounters]
    /\ admitted = [ip \in Ips |-> <<>>]
    /\ outages = 0
    /\ embedState = "idle"
    /\ vecState = "idle"
    /\ kwState = "idle"
    /\ llmState = "idle"
    /\ contextEmails = <<>>
    /\ isComplex = FALSE
    /\ response = NoResponse
    /\ calls = NoCalls

SeqsUpTo(S, n) == UNION {[1..k -> S] : k \in 0..n}

QuestionLens == {MinQuestion - 1, MinQuestion, MaxQuestion, MaxQuestion + 1}

Requests ==
    {[json |-> FALSE, question_len |-> 0, ip |-> "a"]}
    \cup {[json |-> TRUE, question_len |-> n, ip |-> "a"] : n \in QuestionLens}

\* the limiter before any request, and after RateLimit requests of the IP "a"
\* were let in at time 0
Limiters ==
    {[counters |-> [ip \in Ips |-> NoCounters],
      admitted |-> [ip \in Ips |-> <<>>]],
     [counters |-> [ip \in Ips |->
                       IF ip = "a" THEN [NoCounters EXCEPT !.current = RateLimit]
                       ELSE NoCounters],
      admitted |-> [ip \in Ips |->
                       IF ip = "a" THEN [k \in 1..RateLimit |-> 0] ELSE <<>>]]}

Stores ==
    [sizes : {<<2, 1>>, <<2, 1, 1>>, <<MAX_PER_THREAD + 1, 1>>},
     orphans : {1},
     simOrder : {"early", "late"},
     simTop : {SimOne, VectorThreshold - 1, ThreadThreshold - 1},
     kw : {"none", "roots", "tail"}]

Init ==
    /\ store \in Stores
    /\ pc = "start"
    /\ vectorResults = <<>>
    /\ keywordResults = <<>>
    /\ merged = <<>>
    /\ ix = 0
    /\ allEmails = <<>>
    /\ fetched = {}
    /\ request \in Requests
    /\ env \in {"unset", "groq", "anthropic"}
    /\ rateLimitResult = NoRateLimitResult
    /\ now = 0
    /\ \E l \in Limiters :
          /\ limiter = l.counters
          /\ admitted = l.admitted
    /\ outages = 0
    /\ embedState = "idle"
    /\ vecState = "idle"
    /\ kwState = "idle"
    /\ llmState = "idle"
    /\ contextEmails = <<>>
    /\ isComplex = FALSE
    /\ response = NoResponse
    /\ calls = NoCalls
    /\ budget = MaxFailures
    /\ TreeIdle
    /\ CacheIdle
    /\ AskIdle

Next ==
    \/ RateLimitStep
    \/ ParseAndValidate
    \/ EmbedReturns
    \/ VectorSearchReturns
    \/ KeywordSearchReturns
    \/ MergeStep
    \/ ExpandStep
    \/ CallLLM
    \/ LLMReturns

Spec == Init /\ [][Next]_vars

----------------------------------------------------------------------------
(* The inputs mergeAndRerank is checked on: every pair of lists of at most  *)
(* MaxLen rows (a message may occur twice in a list), and a family of wide  *)
(* lists whose union exceeds TopK.                                          *)

SmallIds == 1..MaxLen
SmallSims == {30, 90}
SmallRanks == {0, 1, MaxRank}

SmallVectorLists ==
    SeqsUpTo({Row(id, NULL, NULL, s, Undef) : id \in SmallIds, s \in SmallSims},
             MaxLen)

SmallKeywordLists ==
    SeqsUpTo({Row(id, NULL, NULL, Undef, r) : id \in SmallIds, r \in SmallRanks},
             MaxLen)

WideSims == <<30, 60, 90>>

WideVectorList(nv, p) ==
    [i \in 1..nv |-> Row(i, NULL, NULL, WideSims[((i + p) % 3) + 1], Undef)]

WideKeywordList(nv, nk, o, p) ==
    LET start == IF nv >= o THEN nv - o ELSE 0
    IN [j \in 1..nk |->
           Row(start + j, NULL, NULL, Undef, (j + p) % (MaxRank + 1))]

WideInputs ==
    {<<WideVectorList(nv, p), WideKeywordList(nv, nk, o, p)>> :
        nv \in 0..MaxWide, nk \in 0..MaxWide, o \in 0..2, p \in 1..2}

\* lists whose rows tie: vector rows of similarity 0 and lexical rows of rank 0
\* score 0 alike
TieVectorLists ==
    SeqsUpTo({Row(id, NULL, NULL, s, Undef) : id \in {1, 2}, s \in {0, 60}},
             2)

TieKeywordLists ==
    SeqsUpTo({Row(id, NULL, NULL, Undef, r) : id \in {2, 3}, r \in {0, MaxRank}},
             2)

MergeInputs ==
    (SmallVectorLists \X SmallKeywordLists) \cup WideInputs
        \cup (TieVectorLists \X TieKeywordLists)

NoStore ==
    [sizes |-> <<>>, orphans |-> 0, simOrder |-> "early", simTop |-> 0,
     kw |-> "none"]

InitMerge ==
    /\ store = NoStore
    /\ pc = "merge"
    /\ \E in \in MergeInputs :
          /\ vectorResults = in[1]
          /\ keywordResults = in[2]
    /\ merged = <<>>
    /\ ix = 0
    /\ allEmails = <<>>
    /\ fetched = {}
    /\ Idle
    /\ budget = 0
    /\ TreeIdle
    /\ CacheIdle
    /\ AskIdle

\* const merged = mergeAndRerank(vectorResults, kwResults)
MergeCall ==
    /\ pc = "merge"
    /\ merged' = MergeAndRerank(vectorResults, keywordResults)
    /\ pc' = "merged"
    /\ UNCHANGED <<rateVars, sideVars>>
    /\ UNCHANGED <<store, vectorResults, keywordResults, ix, allEmails, fetched,
                   reqVars, calls, budget>>

NextMerge == MergeCall

SpecMerge == InitMerge /\ [][NextMerge]_vars

----------------------------------------------------------------------------
(* The inputs expandThreads is checked on: stores with a thread around the  *)
(* limits of 30 and 35 emails, and merged lists of at most MaxMerged        *)
(* distinct emails of the store, as the searches return them.               *)

ThreadSizes ==
    {2, MAX_PER_THREAD, MAX_PER_THREAD + 1, MAX_PER_THREAD + FetchExtra + 1}

ExpandStores ==
    [sizes : {<<a, b>> : a \in ThreadSizes, b \in {1, MAX_PER_THREAD + 1}},
     orphans : {1},
     simOrder : {"early", "late"},
     simTop : {SimOne, VectorThreshold - 1},
     kw : {"none"}]

\* the emails a merged list is drawn from: the first, second, twelfth and last
\* of thread 1, the first and last of thread 2, and the email outside threads
MergedCandidates(st) ==
    (({IdOf(1, 1), IdOf(1, 2), IdOf(1, 12), IdOf(1, st.sizes[1]),
       IdOf(2, 1), IdOf(2, st.sizes[2])}) \cap EmailIds(st))
    \cup OrphanIds(st)

\* a merged entry as mergeAndRerank returns it for a search row
MergedRow(m) ==
    [StoreEmail(m) EXCEPT !.in_reply_to = NULL, !.hybrid_score = 0]

DistinctSeqs(S, n) ==
    {s \in SeqsUpTo(S, n) : \A i, j \in DOMAIN s : s[i] = s[j] => i = j}

InitExpand ==
    /\ store \in ExpandStores
    /\ pc = "expand"
    /\ vectorResults = <<>>
    /\ keywordResults = <<>>
    /\ \E ids \in DistinctSeqs(MergedCandidates(store), MaxMerged) :
          /\ Len(ids) >= 1
          /\ merged = [i \in DOMAIN ids |-> MergedRow(ids[i])]
    /\ ix = 1
    /\ allEmails = <<>>
    /\ fetched = {}
    /\ Idle
    /\ budget = 2 * MaxMerged
    /\ TreeIdle
    /\ CacheIdle
    /\ AskIdle

\* askQuestion's step 5 on what expandThreads returned (rag.ts 466)
AssembleCall ==
    /\ pc = "expand"
    /\ ix > Len(merged)
    /\ contextEmails' = AssembleContext(allEmails)
    /\ pc' = "assembled"
    /\ UNCHANGED <<rateVars, sideVars>>
    /\ UNCHANGED <<store, dataVars, request, env, rateLimitResult, embedState,
                   vecState, kwState, llmState, isComplex, response, calls,
                   budget>>

NextExpand ==
    \/ ExpandStep
    \/ AssembleCall

SpecExpand == InitExpand /\ [][NextExpand]_vars

----------------------------------------------------------------------------
(* Properties of mergeAndRerank, checked under SpecMerge *)

UniqueIds(s) ==
    \A i, j \in DOMAIN s : s[i].message_id = s[j].message_id => i = j

IdsOf(s) == {s[i].message_id : i \in DOMAIN s}

\* the row of message id in a list where it occurs once
RowOf(s, id) == s[CHOOSE i \in DOMAIN s : s[i].message_id = id]

\* the divisor the claim names: the largest rank present in the lexical list,
\* or 1 if that is larger
ClaimedDivisor(ks) ==
    IF \E i \in DOMAIN ks : ks[i].rank > RankOne
    THEN CHOOSE d \in {ks[i].rank : i \in DOMAIN ks} :
             \A i \in DOMAIN ks : ks[i].rank <= d
    ELSE RankOne

\* 0.6 * similarity + 0.4 * rank / D, in units of 1/Unit
ClaimedScore(vs, ks, id) ==
    (IF id \in IdsOf(vs)
     THEN (6 * RowOf(vs, id).similarity * Unit) \div (10 * SimOne) ELSE 0)
    +
    (IF id \in IdsOf(ks)
     THEN (4 * RowOf(ks, id).rank * Unit) \div (10 * ClaimedDivisor(ks)) ELSE 0)

\* C3: when each message identifier occurs at most once per input list, every
\* returned message has the hybrid score 0.6*similarity (if it is in the vector
\* list) plus 0.4*rank/D (if it is in the lexical list), D being the largest
\* lexical rank or 1 if that is larger.
C3_HybridScore ==
    (pc = "merged" /\ UniqueIds(vectorResults) /\ UniqueIds(keywordResults))
    => \A i \in DOMAIN merged :
          merged[i].hybrid_score =
              ClaimedScore(vectorResults, keywordResults, merged[i].message_id)

\* a merge of duplicate-free lists that returns a message of both lists, one of
\* the vector list alone and one of the lexical list alone, with a divisor
\* above 1
C3_Witness ==
    /\ pc = "merged"
    /\ UniqueIds(vectorResults) /\ UniqueIds(keywordResults)
    /\ ClaimedDivisor(keywordResults) > RankOne
    /\ \E i, j, k \in DOMAIN merged :
          /\ merged[i].message_id \in IdsOf(vectorResults) \cap IdsOf(keywordResults)
          /\ merged[i].hybrid_score >
                 (6 * RowOf(vectorResults, merged[i].message_id).similarity * Unit)
                     \div (10 * SimOne)
          /\ merged[j].message_id \in IdsOf(vectorResults) \ IdsOf(keywordResults)
          /\ merged[k].message_id \in IdsOf(keywordResults) \ IdsOf(vectorResults)

\* C4: the list mergeAndRerank returns has at most 10 entries, is sorted by
\* non-increasing hybrid score and holds no message identifier twice.
C4_TopKSortedUnique ==
    pc = "merged"
    => /\ Len(merged) <= 10
       /\ \A i, j \in DOMAIN merged :
             i < j => merged[i].hybrid_score >= merged[j].hybrid_score
       /\ \A i, j \in DOMAIN merged :
             i # j => merged[i].message_id # merged[j].message_id

\* a merge whose inputs hold more than 10 distinct messages, one of them in both
\* lists, and whose result has 10 entries of differing scores
C4_Witness ==
    /\ pc = "merged"
    /\ Cardinality(IdsOf(vectorResults) \cup IdsOf(keywordResults)) > 10
    /\ IdsOf(vectorResults) \cap IdsOf(keywordResults) # {}
    /\ Len(merged) = 10
    /\ merged[1].hybrid_score > merged[10].hybrid_score

----------------------------------------------------------------------------
(* Properties of expandThreads, checked under SpecExpand *)

\* the loop is over: allEmails is what expandThreads returns
ExpandReturned == pc = "expand" /\ ix > Len(merged)

\* how many entries of the returned set carry the identifier m
TimesReturned(m) ==
    Cardinality({i \in DOMAIN allEmails : allEmails[i].message_id = m})

\* how many entries of the returned set are emails of thread t
ReturnedOfThread(t) ==
    Cardinality({i \in DOMAIN allEmails :
                    allEmails[i].message_id \in ThreadIds(store, t)})

\* how many merged emails belong to thread t
MergedOfThread(t) ==
    Cardinality({i \in DOMAIN merged : merged[i].thread_root_id = IdOf(t, 1)})

\* C9: every email of a thread of at most 30 emails that a merged email belongs
\* to and whose fetch succeeded is in the returned set exactly once.
C9_SmallThreadComplete ==
    ExpandReturned
    => \A t \in Threads(store) :
          (store.sizes[t] <= 30 /\ IdOf(t, 1) \in fetched)
          => \A m \in ThreadIds(store, t) : TimesReturned(m) = 1

\* an expansion that is over, with two merged emails of a thread of exactly 30
\* emails whose fetch succeeded
C9_Witness ==
    /\ ExpandReturned
    /\ \E t \in Threads(store) :
          /\ store.sizes[t] = 30
          /\ IdOf(t, 1) \in fetched
          /\ MergedOfThread(t) = 2

\* C10 as stated: of a thread of more than 30 emails the returned set holds at
\* most 12 emails, and never more than the thread has.
C10_AtMostTwelve ==
    ExpandReturned
    => \A t \in Threads(store) :
          store.sizes[t] > 30
          => /\ ReturnedOfThread(t) <= 12
             /\ ReturnedOfThread(t) <= store.sizes[t]

\* C10 as amended: of a thread of more than 30 emails of which m are merged
\* emails, the returned set holds at most 11 + 2m emails (the root, at most 10
\* relevant ones, and each merged email with at most its parent), and never
\* more than the thread has.
C10_AtMostElevenPlusTwoPerMerged ==
    ExpandReturned
    => \A t \in Threads(store) :
          store.sizes[t] > 30
          => /\ ReturnedOfThread(t) <= 11 + 2 * MergedOfThread(t)
             /\ ReturnedOfThread(t) <= store.sizes[t]

\* an expansion that is over and returns more than 12 emails of a thread of
\* more than 30 emails, two of them merged emails
C10_Witness ==
    /\ ExpandReturned
    /\ \E t \in Threads(store) :
          /\ store.sizes[t] > 30
          /\ IdOf(t, 1) \in fetched
          /\ MergedOfThread(t) = 2
          /\ ReturnedOfThread(t) > 12

----------------------------------------------------------------------------
(* Properties of the route and of askQuestion, checked under Spec *)

Settled(state) == state \in {"ok", "error"}

\* the calls the retrieval and the synthesis make to their collaborators
PipelineCalls ==
    calls["embed"] + calls["vector"] + calls["keyword"] + calls["fetch"]
    + calls["match"] + calls["groq"] + calls["claude"]

\* C1: when the embedding call for a question throws, the request is not
\* aborted for that reason: the vector branch counts as empty, the lexical
\* search still runs, and askQuestion returns a result (unless the language
\* model fails later).
C1_EmbeddingFailureAbsorbed ==
    (embedState = "error" /\ pc = "done")
    => /\ vectorResults = <<>>
       /\ calls["keyword"] >= 1
       /\ (response.status = 200 \/ llmState = "error")

\* C2: the two searches are both started before either has settled, the merge
\* runs only after both have settled, and when exactly one of them reports a
\* failure it contributes an empty list, the matches of the other are the
\* merged ones, and the request goes on.
C2_SearchesJoined ==
    /\ (vecState # "idle" \/ kwState # "idle")
       => (calls["vector"] = 1 /\ calls["keyword"] = 1)
    /\ calls["merge"] > 0 => (Settled(vecState) /\ Settled(kwState))
    /\ (calls["merge"] > 0 /\ vecState = "error" /\ kwState = "ok")
       => /\ vectorResults = <<>>
          /\ IdsOf(merged) = IdsOf(Slice(keywordResults, 10))
          /\ pc = "done" => (response.status = 200 \/ llmState = "error")
    /\ (calls["merge"] > 0 /\ vecState = "ok" /\ kwState = "error")
       => /\ keywordResults = <<>>
          /\ IdsOf(merged) = IdsOf(Slice(vectorResults, 10))
          /\ pc = "done" => (response.status = 200 \/ llmState = "error")

\* a request that was answered from the lexical matches alone after the vector
\* search had reported a failure
C2_Witness ==
    /\ pc = "done"
    /\ vecState = "error"
    /\ kwState = "ok"
    /\ Len(keywordResults) > 1
    /\ IdsOf(merged) = IdsOf(keywordResults)
    /\ response.status = 200
    /\ Len(response.sources) > 0

\* C5: if both searches return no matches, the answer is the fixed one with no
\* citations and no thread ids, and neither a thread fetch nor a language-model
\* call is made.
C5_NothingFound ==
    (Settled(vecState) /\ Settled(kwState)
        /\ vectorResults = <<>> /\ keywordResults = <<>>)
    => /\ calls["fetch"] = 0
       /\ calls["match"] = 0
       /\ calls["groq"] = 0
       /\ calls["claude"] = 0
       /\ pc = "done"
          => /\ response.status = 200
             /\ response.answer.text = NoResultsText
             /\ response.sources = <<>>
             /\ response.thread_ids = <<>>

\* a finished request both of whose searches succeeded and matched nothing
C5_Witness ==
    /\ pc = "done"
    /\ vecState = "ok"
    /\ kwState = "ok"
    /\ vectorResults = <<>>
    /\ keywordResults = <<>>
    /\ response.status = 200

\* C6: if the language-model call throws, no result is produced: the route
\* answers 500 with the retry message, and source extraction is not run.
C6_SynthesisFailureFatal ==
    llmState = "error"
    => /\ pc = "done"
       /\ response.status = 500
       /\ response.body = "Failed to generate answer. Please try again."
       /\ response.sources = <<>>
       /\ calls["extract"] = 0

\* a request whose language-model call has thrown
C6_Witness ==
    /\ llmState = "error"
    /\ pc = "done"
    /\ Len(merged) > 0
    /\ Len(contextEmails) > 0

\* C7: the synthesizer invokes exactly one provider, the one LLM_PROVIDER
\* selects (Claude for "anthropic", Groq otherwise), also when its call fails.
C7_OneProvider ==
    /\ calls["groq"] + calls["claude"] <= 1
    /\ llmState # "idle"
       => /\ calls["groq"] + calls["claude"] = 1
          /\ calls["claude"] = 1 <=> env = "anthropic"

\* a request configured for Anthropic whose provider call has failed
C7_Witness ==
    /\ llmState = "error"
    /\ pc = "done"
    /\ env = "anthropic"
    /\ calls["claude"] = 1
    /\ calls["groq"] = 0

\* C8: for a question of fewer than 3 or more than 1000 characters no
\* embedding, search, thread-fetch or language-model call is made, and the
\* request (once the rate limiter lets it through to validation) is rejected
\* with the validation error.
C8_QuestionLength ==
    (request.json /\ (request.question_len < 3 \/ request.question_len > 1000))
    => /\ PipelineCalls = 0
       /\ (pc = "done" /\ rateLimitResult.success)
          => /\ response.status = 400
             /\ response.body = "Invalid request body"

\* a request with a question of 1001 characters, rejected as invalid
C8_Witness ==
    /\ pc = "done"
    /\ request.json
    /\ request.question_len = 1001
    /\ calls["ratelimit"] = 1
    /\ response.status = 400

----------------------------------------------------------------------------
(* Further properties of expandThreads, checked under SpecExpand *)

\* no thread fetch and no match_emails call of the expansion has failed
NoExpandFailure == budget = 2 * MaxMerged

\* the identifiers of the page the thread fetch of root returns
FetchedIds(rootId) ==
    {FetchThread(store, rootId)[i].message_id :
        i \in DOMAIN FetchThread(store, rootId)}

\* C11: when the expansion is over and no call has failed, the direct parent
\* of every merged email of a thread of more than 30 emails, if it is an email
\* of that thread, is in the returned set.
C11_ParentIncluded ==
    (ExpandReturned /\ NoExpandFailure)
    => \A i \in DOMAIN merged :
          LET m == merged[i].message_id
          IN (/\ RootOf(m) # NULL
              /\ store.sizes[ThreadOf(m)] > 30
              /\ ParentOf(m) \in FetchedIds(RootOf(m)))
             => TimesReturned(ParentOf(m)) >= 1

\* C12: no two entries of the expanded set share a message identifier, at
\* any point of the expansion and when it is over.
C12_NoDuplicateIds ==
    \A i, j \in DOMAIN allEmails :
        allEmails[i].message_id = allEmails[j].message_id => i = j

\* an expansion that is over in which two merged emails of one thread had that
\* thread fetched, so that every email of the thread was reached twice
C12_Witness ==
    /\ ExpandReturned
    /\ NoExpandFailure
    /\ \E t \in Threads(store) :
          /\ store.sizes[t] <= 30
          /\ MergedOfThread(t) = 2
          /\ calls["fetch"] >= 2

----------------------------------------------------------------------------
(* Further properties of the route and of askQuestion, checked under Spec *)

\* the identifiers of a list of emails
MessageIds(es) == {es[i].message_id : i \in DOMAIN es}

\* every failure injected so far was the failure of a thread fetch
OnlyFetchFailures ==
    /\ budget < MaxFailures
    /\ calls["fetch"] >= 1
    /\ calls["match"] = 0

\* C13: a step of the expansion whose thread fetch fails adds the merged email
\* in turn and nothing else, and goes on to the next merged email without
\* answering; and a request in which only thread fetches failed and the
\* provider answered ends with status 200.
C13_FetchFailureAbsorbed ==
    /\ [][(/\ pc = "expand"
           /\ ix <= Len(merged)
           /\ calls'["fetch"] = calls["fetch"] + 1
           /\ calls'["match"] = calls["match"]
           /\ budget' < budget)
          => (/\ MessageIds(allEmails') =
                     MessageIds(allEmails) \cup {merged[ix].message_id}
              /\ ix' = ix + 1
              /\ pc' = "expand"
              /\ response' = response)]_vars
    /\ []((pc = "done" /\ OnlyFetchFailures /\ llmState = "ok")
          => response.status = 200)

\* a request answered with status 200 although the thread fetch of one of its
\* two or more merged emails failed
C13_Witness ==
    /\ pc = "done"
    /\ OnlyFetchFailures
    /\ Len(merged) >= 2
    /\ calls["fetch"] >= 2
    /\ MessageIds(merged) \subseteq MessageIds(allEmails)
    /\ response.status = 200

----------------------------------------------------------------------------
(* Properties of assembleContext, checked under SpecExpand *)

\* C14: the context assembled from any expanded set holds at most 20 emails,
\* in non-decreasing order of their dates.
C14_ContextBoundedChronological ==
    pc = "assembled"
    => /\ Len(contextEmails) <= 20
       /\ \A i, j \in DOMAIN contextEmails :
              i < j => contextEmails[i].date <= contextEmails[j].date

\* a context of 20 emails assembled from an expanded set of more than 20 that
\* was not in the order of the dates
C14_Witness ==
    /\ pc = "assembled"
    /\ Len(allEmails) > 20
    /\ Len(contextEmails) = 20
    /\ \E i, j \in DOMAIN allEmails :
           i < j /\ allEmails[i].date > allEmails[j].date

----------------------------------------------------------------------------
(* Properties of the synthesis step, checked under Spec *)

\* the provider was called for this request
ProviderCalled == calls["groq"] + calls["claude"] >= 1

\* the thread-root identifiers the merged emails carry: null is none
ThreadRootIds(m) == {m[i].thread_root_id : i \in DOMAIN m} \ {NULL}

\* C15: the provider is called with the larger model tier exactly when the
\* merged emails carry at least 3 distinct thread-root identifiers; a merged
\* email outside any thread contributes no identifier.
C15_ComplexIffThreeThreads ==
    ProviderCalled
    => (isComplex <=> Cardinality(ThreadRootIds(merged)) >= 3)

\* C16: the answer text of a request the provider answered is never the
\* empty string.
C16_AnswerNeverEmpty ==
    (pc = "done" /\ ProviderCalled /\ response.status = 200)
    => response.answer.text # ""

----------------------------------------------------------------------------
(* Properties of extractSources, checked under Spec *)

\* extractSources has run for this request
SourcesExtracted == pc = "done" /\ calls["extract"] = 1

\* C17: extractSources returns at most 5 citations, each with a relevance
\* score between 0 and 1 (Unit is the score 1).
C17_AtMostFiveScoresInUnitInterval ==
    SourcesExtracted
    => /\ Len(response.sources) <= 5
       /\ \A i \in DOMAIN response.sources :
              /\ response.sources[i].relevance_score >= 0
              /\ response.sources[i].relevance_score <= Unit

\* 5 citations taken from a context of more than 5 emails, one of them of a
\* merged email whose hybrid score and author bonus add up to more than 1
C17_Witness ==
    /\ SourcesExtracted
    /\ Len(contextEmails) > 5
    /\ Len(response.sources) = 5
    /\ \E i \in DOMAIN response.sources :
           /\ response.sources[i].author_name \in response.answer.mentions
           /\ MatchedScore(merged, response.sources[i].message_id)
                  + Unit \div 5 > Unit
           /\ response.sources[i].relevance_score = Unit

----------------------------------------------------------------------------
(* Further properties of mergeAndRerank, checked under SpecMerge *)

\* the first place of message id in a list that holds it
FirstIndex(s, id) ==
    CHOOSE i \in DOMAIN s :
        /\ s[i].message_id = id
        /\ \A j \in 1..(i - 1) : s[j].message_id # id

\* the order of insertion the claim names: the messages of the vector list in
\* the order of that list, then the lexical-only ones in the order of theirs
InsertionRank(vs, ks, id) ==
    IF id \in IdsOf(vs) THEN FirstIndex(vs, id)
    ELSE Len(vs) + FirstIndex(ks, id)

\* C20: of two returned entries with equal hybrid score, the one inserted
\* first (vector entries in vector-list order, then lexical-only entries in
\* lexical-list order) comes first.
C20_TiesInInsertionOrder ==
    pc = "merged"
    => \A i, j \in DOMAIN merged :
          (i < j /\ merged[i].hybrid_score = merged[j].hybrid_score)
          => InsertionRank(vectorResults, keywordResults, merged[i].message_id)
                 < InsertionRank(vectorResults, keywordResults,
                                 merged[j].message_id)

\* a merge that returns three entries of equal score, two of the vector list
\* and behind them one of the lexical list alone
C20_Witness ==
    /\ pc = "merged"
    /\ \E i, j, k \in DOMAIN merged :
          /\ i < j /\ j < k
          /\ merged[i].hybrid_score = merged[k].hybrid_score
          /\ merged[j].hybrid_score = merged[k].hybrid_score
          /\ {merged[i].message_id, merged[j].message_id}
                 \subseteq IdsOf(vectorResults)
          /\ merged[k].message_id \notin IdsOf(vectorResults)

----------------------------------------------------------------------------
(* Requests that reach the route one after the other while time passes.  Of *)
(* each request the model follows the route up to the verdict of the        *)
(* limiter: what follows (validation and askQuestion, or the 429 response)  *)
(* neither reads nor writes the limiter.                                    *)

InitRate ==
    /\ store = NoStore
    /\ pc = "start"
    /\ vectorResults = <<>>
    /\ keywordResults = <<>>
    /\ merged = <<>>
    /\ ix = 0
    /\ allEmails = <<>>
    /\ fetched = {}
    /\ Idle
    /\ budget = 0
    /\ TreeIdle
    /\ CacheIdle
    /\ AskIdle

\* half a minute passes
Tick ==
    /\ now < MaxNow
    /\ now' = now + 1
    /\ UNCHANGED <<store, pc, dataVars, reqVars, calls, budget, limiter,
                   admitted, outages, sideVars>>

\* the next request reaches POST, from either IP
Arrive ==
    /\ pc \in {"body", "done"}
    /\ calls["ratelimit"] < MaxRequests
    /\ \E ip \in Ips : request' = [request EXCEPT !.ip = ip]
    /\ response' = NoResponse
    /\ pc' = "start"
    /\ UNCHANGED <<store, dataVars, env, rateLimitResult, embedState, vecState,
                   kwState, llmState, contextEmails, isComplex, calls, budget,
                   rateVars, sideVars>>

NextRate ==
    \/ RateLimitStep
    \/ Tick
    \/ Arrive

SpecRate == InitRate /\ [][NextRate]_vars

----------------------------------------------------------------------------
(* buildThreadTree alone, on every list of at most MaxEmails emails with    *)
(* distinct identifiers, ordered by date as the query of the callers        *)
(* orders them; an email answers nothing, an email of the list (itself      *)
(* included) or a message that is not in the list.                          *)

\* no request is in the pipeline
PipelineIdle ==
    /\ store = NoStore
    /\ vectorResults = <<>>
    /\ keywordResults = <<>>
    /\ merged = <<>>
    /\ ix = 0
    /\ allEmails = <<>>
    /\ fetched = {}
    /\ Idle
    /\ budget = 0

TreeIds == 1..MaxEmails

TreeEmails ==
    [message_id : TreeIds, in_reply_to : {NULL} \cup TreeIds \cup {MaxEmails + 1},
     date : 1..MaxDate]

ThreadLists ==
    {s \in SeqsUpTo(TreeEmails, MaxEmails) :
        /\ \A i, j \in DOMAIN s : s[i].message_id = s[j].message_id => i = j
        /\ \A i, j \in DOMAIN s : i < j => s[i].date <= s[j].date}

InitTree ==
    /\ PipelineIdle
    /\ pc = "tree"
    /\ emails \in ThreadLists
    /\ tree = <<>>
    /\ CacheIdle
    /\ AskIdle

NextTree == BuildTreeCall

SpecTree == InitTree /\ [][NextTree]_vars

----------------------------------------------------------------------------
(* The threads route alone: two clients sending MaxListRequests requests    *)
(* in all, while the table grows and keys expire.                           *)

InitCache ==
    /\ PipelineIdle
    /\ pc = "start"
    /\ TreeIdle
    /\ threadsTable \in {{}, {t \in AllThreads : t.id = 1}}
    /\ redis = [k \in CacheKeys |-> NoValue]
    /\ listRequests = [r \in Clients |-> NoListRequest]
    /\ queryLog = {}
    /\ AskIdle

NextCache ==
    \/ \E r \in Clients : ListGet(r)
    \/ \E r \in Clients : CacheGetReturns(r)
    \/ \E r \in Clients : QueryReturns(r)
    \/ \E r \in Clients : CacheSetReturns(r)
    \/ Expire
    \/ ThreadArrives

SpecCache == InitCache /\ [][NextCache]_vars

----------------------------------------------------------------------------
(* AskInterface alone, mounted with or without a q parameter.               *)

InitAsk ==
    /\ PipelineIdle
    /\ pc = "start"
    /\ TreeIdle
    /\ CacheIdle
    /\ question \in Questions
    /\ loading = FALSE
    /\ result = NULL
    /\ error = NULL
    /\ pending = {}
    /\ submissions = <<>>

NextAsk ==
    \/ TypeQuestion
    \/ PressEnter
    \/ ClickAsk
    \/ ClickExample
    \/ ResponseArrives
    \/ AskAnother

SpecAsk == InitAsk /\ [][NextAsk]_vars

----------------------------------------------------------------------------
(* Properties of the rate limit, checked under SpecRate and Spec *)

\* the requests of an IP let in during the hour that begins at t0
AdmittedInHour(ip, t0) ==
    Cardinality({i \in DOMAIN admitted[ip] :
                    /\ admitted[ip][i] >= t0
                    /\ admitted[ip][i] < t0 + HourTicks})

\* C18: while the limiter is available, at most 10 requests of one IP are let
\* in to the pipeline within any one hour.
C18_TenPerHour ==
    outages = 0
    => \A ip \in Ips : \A t0 \in 0..MaxNow : AdmittedInHour(ip, t0) <= 10

\* C19: a request for which the limiter's call threw is reported as within
\* the limit, is never answered 429, and goes on: an invalid body is answered
\* 400 and a valid one reaches the embedding call.
C19_FailOpen ==
    (outages > 0)
    => /\ pc # "start"
       /\ rateLimitResult.success
       /\ response.status # 429
       /\ (pc = "done" /\ ~(request.json /\ ValidQuestion(request.question_len)))
              => response.status = 400
       /\ (pc \notin {"body"} /\ request.json
                /\ ValidQuestion(request.question_len))
              => calls["embed"] = 1

\* a request answered with status 200 after the limiter's call threw, from an
\* IP whose counter stands at the limit
C19_Witness ==
    /\ outages > 0
    /\ limiter[request.ip].current >= RateLimit
    /\ pc = "done"
    /\ response.status = 200

----------------------------------------------------------------------------
(* Order independence of mergeAndRerank, checked under SpecMerge *)

\* s with the entries at i and j exchanged
Swap(s, i, j) ==
    [k \in DOMAIN s |-> IF k = i THEN s[j] ELSE IF k = j THEN s[i] ELSE s[k]]

\* s and every list got from s by exchanging two entries; exchanges generate
\* all reorderings, and the lists checked are closed under them
Reorderings(s) == {s} \cup {Swap(s, i, j) : i, j \in DOMAIN s}

\* the identifiers and scores of a ranking, in order
Ranking(m) == [i \in DOMAIN m |-> <<m[i].message_id, m[i].hybrid_score>>]

\* no two entries of the merge of vs and ks have the same hybrid score
NoEqualScores(vs, ks) ==
    LET scores == AddKeyword(ks, MaxRankOf(ks), SeedVector(vs, <<>>))
    IN \A i, j \in DOMAIN scores :
          i # j => scores[i].hybrid_score # scores[j].hybrid_score

\* the ranking is the same for every reordering of either list
SameRankingReordered ==
    \A vs2 \in Reorderings(vectorResults) :
        \A ks2 \in Reorderings(keywordResults) :
            Ranking(MergeAndRerank(vs2, ks2)) = Ranking(merged)

----------------------------------------------------------------------------
(* Order independence of expandThreads, checked under SpecExpand *)

\* C22: when no call fails, the identifiers expandThreads returns are the
\* identifiers it returns for every reordering of the same merged emails on
\* the same store.
C22_ExpansionOrderIndependent ==
    (ExpandReturned /\ NoExpandFailure)
    => \A m2 \in Reorderings(merged) :
          MessageIds(ExpandAll(store, <<>>, m2)) = MessageIds(allEmails)

\* an expansion that is over, of two merged emails of different threads, one
\* of them a thread of more than 30 emails, the other email being reached
\* by neither expansion alone
C22_Witness ==
    /\ ExpandReturned
    /\ NoExpandFailure
    /\ Len(merged) = 2
    /\ merged[1].thread_root_id # merged[2].thread_root_id
    /\ \E i \in DOMAIN merged :
          /\ merged[i].thread_root_id # NULL
          /\ store.sizes[ThreadOf(merged[i].message_id)] > 30
    /\ MessageIds(ExpandAll(store, <<>>, <<merged[1]>>))
           # MessageIds(allEmails)
    /\ MessageIds(ExpandAll(store, <<>>, <<merged[2]>>))
           # MessageIds(allEmails)

----------------------------------------------------------------------------
(* The relevant subset of a large thread, checked under SpecExpand *)

\* the emails of thread t with similarity above 0.1, nearest first
SimilarInThread(st, t) ==
    LET order == SimOrder(st)
        kept == {k \in DOMAIN order :
                    /\ order[k] \in ThreadIds(st, t)
                    /\ SimAt(st, k) > ThreadThreshold}
    IN {order[k] : k \in {k \in kept :
                              Cardinality({j \in kept : j < k})
                                  < MAX_RELEVANT_WITHIN_THREAD}}

\* C23: when no call fails, for every merged email of a thread of more than
\* 30 emails, the (up to 10) emails of that thread most similar to the query
\* among those with similarity above 0.1, ranked among the emails of that
\* thread only, are all in the expanded set.
C23_RelevantSubsetInThread ==
    (ExpandReturned /\ NoExpandFailure)
    => \A i \in DOMAIN merged :
          LET m == merged[i].message_id
          IN (RootOf(m) # NULL /\ store.sizes[ThreadOf(m)] > 30)
             => SimilarInThread(store, ThreadOf(m)) \subseteq MessageIds(allEmails)

----------------------------------------------------------------------------
(* The scoring of extractSources, checked under Spec *)

\* min(1, h + b) for a context email: h its hybrid score if it is a merged
\* email and 0 otherwise, b 0.2 if its author is named in the answer
ClaimedRelevance(email) ==
    LET h == IF email.message_id \in IdsOf(merged)
             THEN RowOf(merged, email.message_id).hybrid_score ELSE 0
        b == IF /\ email.author_name # NULL
                /\ email.author_name \in response.answer.mentions
             THEN Unit \div 5 ELSE 0
    IN IF h + b > Unit THEN Unit ELSE h + b

\* C24: the citations are the 5 context emails of highest score min(1, h + b)
\* (all of them when the context holds fewer), each with that score, in
\* non-increasing order of score.
C24_SourcesScoredAndRanked ==
    SourcesExtracted
    => /\ Len(response.sources)
              = (IF Len(contextEmails) < 5 THEN Len(contextEmails) ELSE 5)
       /\ \A i \in DOMAIN response.sources :
              /\ response.sources[i].message_id \in IdsOf(contextEmails)
              /\ response.sources[i].relevance_score =
                     ClaimedRelevance(RowOf(contextEmails,
                                            response.sources[i].message_id))
       /\ \A i, j \in DOMAIN response.sources :
              i < j => response.sources[i].relevance_score
                          >= response.sources[j].relevance_score
       /\ \A k \in DOMAIN contextEmails :
              contextEmails[k].message_id \notin IdsOf(response.sources)
              => \A i \in DOMAIN response.sources :
                     ClaimedRelevance(contextEmails[k])
                         <= response.sources[i].relevance_score

\* 5 citations of differing scores out of a context of more than 5 emails:
\* the first a merged email whose author the answer names, and an email that
\* thread expansion added is left out
C24_Witness ==
    /\ SourcesExtracted
    /\ Len(contextEmails) > 5
    /\ Len(response.sources) = 5
    /\ response.sources[1].relevance_score > response.sources[5].relevance_score
    /\ response.sources[1].message_id \in IdsOf(merged)
    /\ response.sources[1].author_name \in response.answer.mentions
    /\ \E k \in DOMAIN contextEmails :
           /\ contextEmails[k].message_id \notin IdsOf(merged)
           /\ contextEmails[k].message_id \notin IdsOf(response.sources)

----------------------------------------------------------------------------
(* The 429 response of the route, checked under Spec *)

\* C25: a request for which the limiter reported the limit exceeded is
\* answered 429 with the X-RateLimit-Limit, X-RateLimit-Remaining and
\* X-RateLimit-Reset headers, and no embedding, search, thread-fetch or
\* language-model call is made for it.
C25_LimitExceededAnswer ==
    (pc # "start" /\ ~rateLimitResult.success)
    => /\ pc = "done"
       /\ response.status = 429
       /\ response.headers =
              {"X-RateLimit-Limit", "X-RateLimit-Remaining", "X-RateLimit-Reset"}
       /\ PipelineCalls = 0

\* a request with a valid question, from an IP whose counter is at the limit,
\* answered 429 by an available limiter
C25_Witness ==
    /\ pc = "done"
    /\ outages = 0
    /\ ~rateLimitResult.success
    /\ limiter[request.ip].current >= RateLimit
    /\ request.json /\ ValidQuestion(request.question_len)
    /\ response.status = 429

----------------------------------------------------------------------------
(* What assembleContext keeps of the merged messages, checked under
   SpecExpand *)

\* C27: once the context is assembled, every message returned by
\* mergeAndRerank is among the messages of the assembled context, however
\* many messages thread expansion added.
C27_MergedInContext ==
    pc = "assembled" => MessageIds(merged) \subseteq MessageIds(contextEmails)

----------------------------------------------------------------------------
(* The citations of a result, checked under Spec *)

\* C28: every citation of a result returned by askQuestion refers to a
\* message of the assembled context given to the language model, and no two
\* citations of one result have the same message identifier.
C28_CitationsFromContext ==
    (pc = "done" /\ response.status = 200)
    => /\ IdsOf(response.sources) \subseteq IdsOf(contextEmails)
       /\ \A i, j \in DOMAIN response.sources :
              response.sources[i].message_id = response.sources[j].message_id
              => i = j

\* a result with 5 citations taken from a context of more than 5 messages
\* that the language model was given
C28_Witness ==
    /\ SourcesExtracted
    /\ response.status = 200
    /\ calls["groq"] + calls["claude"] = 1
    /\ Len(response.sources) = MaxSources
    /\ Len(contextEmails) > MaxSources

----------------------------------------------------------------------------
(* The forest of buildThreadTree, checked under SpecTree *)

RECURSIVE CountIn(_, _)
\* how often the message id occurs in the nodes and below them
CountIn(nodes, id) ==
    IF nodes = <<>> THEN 0
    ELSE (IF Head(nodes).message_id = id THEN 1 ELSE 0)
         + CountIn(Head(nodes).children, id)
         + CountIn(Tail(nodes), id)

RECURSIVE ChildrenInDateOrder(_)
\* the nodes, and the children of every node below them, are in
\* non-decreasing date order
ChildrenInDateOrder(nodes) ==
    /\ \A i, j \in DOMAIN nodes : i < j => nodes[i].date <= nodes[j].date
    /\ \A i \in DOMAIN nodes : ChildrenInDateOrder(nodes[i].children)

\* C30: for a list of emails with pairwise distinct message identifiers and
\* any in_reply_to values, every email occurs exactly once in the forest
\* buildThreadTree returns, an email whose parent is not in the list is a
\* root, and the children of every node are in non-decreasing date order.
C30_EveryEmailOnceInForest ==
    pc = "built"
    => /\ \A i \in DOMAIN emails : CountIn(tree, emails[i].message_id) = 1
       /\ \A i \in DOMAIN emails :
              ~HasParent(emails, emails[i])
              => \E k \in DOMAIN tree :
                    tree[k].message_id = emails[i].message_id
       /\ \A k \in DOMAIN tree : ChildrenInDateOrder(tree[k].children)

----------------------------------------------------------------------------
(* The cache of the threads route, checked under SpecCache *)

\* the value was the result of a successful query without search filter for
\* the key (sort, page, per_page), made before now
QueriedBefore(sort, page, per_page, value) ==
    [sort |-> sort, page |-> page, per_page |-> per_page, value |-> value]
        \in queryLog

\* C26: every response of the threads route served from the cache equals the
\* result of an earlier successful database query made without a search
\* filter for the same (sort, page, per_page); a request with a search filter
\* neither reads nor writes the cache, and a failed query is not written to
\* it (all that Redis holds and all that is on its way to Redis is the result
\* of such a query for its key).
C26_CacheServesEarlierQuery ==
    /\ \A r \in Clients :
          LET req == listRequests[r]
          IN /\ req.response.served = "cache"
                => /\ ~Truthy(req.search)
                   /\ req.response.status = 200
                   /\ req.response.page = req.page
                   /\ req.response.per_page = req.per_page
                   /\ QueriedBefore(req.sort, req.page, req.per_page,
                          [hit |-> TRUE, threads |-> req.response.threads,
                           total |-> req.response.total])
             /\ req.state \in {"cacheGet", "cacheSet"} => ~Truthy(req.search)
             /\ req.state = "cacheSet"
                => QueriedBefore(req.sort, req.page, req.per_page, req.data)
    /\ \A k \in CacheKeys :
          redis[k].hit => QueriedBefore(k[1], k[2], k[3], redis[k])

\* a response served from the cache, which still holds the value, that
\* differs from what the database would answer now
C26_Witness ==
    \E r \in Clients :
        LET req == listRequests[r]
        IN /\ req.state = "done"
           /\ req.response.served = "cache"
           /\ req.response.total # Cardinality(threadsTable)
           /\ redis[CacheKey(req.sort, req.page, req.per_page)].hit

----------------------------------------------------------------------------
(* What AskInterface shows, checked under SpecAsk *)

\* C29: once every request has completed, the result or error shown belongs
\* to the most recently submitted question.
C29_ShownBelongsToLatest ==
    (pending = {} /\ submissions # <<>>)
    => /\ result # NULL
          => submissions[result] = submissions[Len(submissions)]
       /\ error # NULL
          => submissions[error] = submissions[Len(submissions)]

====
